---- MODULE Spec2Model ----
(***************************************************************************)
(* Model of cellprofiler/modules/exporttodatabase.py: the ColumnNameMapping *)
(* registry (feature name -> column name) and the ExportToDatabase module   *)
(* (schema layout, row assembly, relational and file sinks).                *)
(*                                                                          *)
(* In the registry a name is a sequence of one-character strings.  In the   *)
(* module a name is the sequence of its "_"-separated parts, so that        *)
(* "%s_%s" % (a, b) is a \o b.  A statement is recorded with the values of  *)
(* its rows; their conversion to text is not part of the model.             *)
(***************************************************************************)
EXTENDS Integers, Sequences, FiniteSets, TLC

VARIABLES
    dictionary,          \* ColumnNameMapping.__dictionary : feature name -> column name
    mapped,              \* ColumnNameMapping.__mapped
    max_len,             \* ColumnNameMapping.__max_len
    pc,                  \* position inside __getitem__/do_mapping ("idle" between calls)
    reverse_dictionary,  \* do_mapping local: column name -> feature name
    problem_names,       \* do_mapping local: the values longer than max_len, in scan order
    cur,                 \* do_mapping locals of the current iteration: key, orig_name, name
    arg,                 \* the feature_name argument of the running __getitem__
    ret,                 \* what the last call returned: <<>> or <<feature name, column name>>
    first_id,            \* history: the first identifier returned for a name since its add
    outcome,             \* how the last call ended: "ok" or the exception raised
    db_type,             \* setting db_type: "MySQL", "Oracle" or "SQLite"
    store_csvs,          \* setting store_csvs
    in_batch_mode,       \* pipeline.in_batch_mode()
    column_defs,         \* pipeline.get_measurement_columns(): <<object name, feature, type>>
    wants_agg,           \* the aggregate kinds whose wants_agg_* setting is on
    connected,           \* self.connection and self.cursor are set
    schema_set,          \* self.image_col_order, object_col_order and col_dict are set
    col_dict,            \* self.col_dict : object name -> its column definitions
    image_col_order,     \* self.image_col_order : column name -> position
    object_col_order,    \* self.object_col_order : column name -> position
    executed,            \* the statements executed on the cursor, in order
    meas,                \* workspace.measurements: one store per image set,
                         \*   <<object name, feature>> -> value (Image) or vector (objects)
    image_set_start_number, \* measurements.image_set_start_number
    res,                 \* the last operation: what it raised and the rows it assembled
    warnings,            \* the warnings written to sys.stderr
    csv_image,           \* the rows written to the image CSV file
    csv_object,          \* the rows written to the object CSV file
    phase,               \* where the pipeline is in the module's life: "configured",
                         \*   "prepared", "measured", "refused", "failed" or "finished"
    script,              \* the setup script write_mysql_table_defs wrote: <<>> or the
                         \*   feature names of the columns of its two CREATE TABLEs
    existing,            \* the tables the database holds when prepare_run starts
    dialog               \* the overwrite dialog of prepare_run: "none" (not shown),
                         \*   "ok" or "cancel"

mapperVars == <<dictionary, mapped, max_len, pc, reverse_dictionary, problem_names,
                cur, arg, ret, first_id, outcome>>

cfgVars == <<db_type, store_csvs, in_batch_mode, column_defs, wants_agg>>

schemaVars == <<connected, schema_set, col_dict, image_col_order, object_col_order>>

rowVars == <<meas, image_set_start_number, res, warnings, csv_image, csv_object>>

envVars == <<script, existing, dialog>>

vars == <<mapperVars, cfgVars, schemaVars, executed, rowVars, phase, envVars>>

-----------------------------------------------------------------------------
(* Bounds of the model *)

MaxNameLen == 3
MaxNames == 2
MaxMaxLen == 2
MaxDefs == 3

\* the characters feature names are drawn from: a vowel, a consonant, an
\* uppercase letter and a digit
Alphabet == {"a", "b", "B", "1"}

NameUniverse == UNION {[1..n -> Alphabet] : n \in 1..MaxNameLen}

-----------------------------------------------------------------------------
(* Helpers on sequences and functions *)

Range(f) == {f[x] : x \in DOMAIN f}

RemoveAt(s, index) == SubSeq(s, 1, index - 1) \o SubSeq(s, index + 1, Len(s))

Orders(S) == {o \in [1..Cardinality(S) -> S] : \A i, j \in DOMAIN o : i # j => o[i] # o[j]}

Injective(f) == \A x, y \in DOMAIN f : x # y => f[x] # f[y]

EmptyMap == [x \in {} |-> x]

-----------------------------------------------------------------------------
(* ColumnNameMapping.do_mapping: the three removal passes *)

Vowels == {"a", "e", "i", "o", "u"}
Consonants == {"b", "c", "d", "f", "g", "h", "j", "k", "l", "m", "n",
               "p", "q", "r", "s", "t", "v", "w", "x", "y", "z"}
Uppercase == {"A", "B", "C", "D", "E", "F", "G", "H", "I", "J", "K",
              "L", "M", "N", "O", "P", "Q", "R", "S", "T", "U", "V",
              "W", "X", "Y", "Z"}
ToDrop == <<Vowels, Consonants, Uppercase>>

\* one pass: scan from the end towards the start, deleting the characters of
\* to_drop, stopping when to_remove characters are gone
RECURSIVE ScanDrop(_, _, _, _, _)
ScanDrop(name, index, to_drop, remove_count, to_remove) ==
    IF index = 0 THEN <<name, remove_count>>
    ELSE IF name[index] \in to_drop
         THEN IF remove_count + 1 = to_remove
              THEN <<RemoveAt(name, index), remove_count + 1>>
              ELSE ScanDrop(RemoveAt(name, index), index - 1, to_drop,
                            remove_count + 1, to_remove)
         ELSE ScanDrop(name, index - 1, to_drop, remove_count, to_remove)

RECURSIVE DropPasses(_, _, _, _)
DropPasses(name, pass, remove_count, to_remove) ==
    IF pass > Len(ToDrop) THEN name
    ELSE LET r == ScanDrop(name, Len(name), ToDrop[pass], remove_count, to_remove)
         IN  IF r[2] = to_remove THEN r[1]
             ELSE DropPasses(r[1], pass + 1, r[2], to_remove)

Shorten(name, maxlen) == DropPasses(name, 1, 0, Len(name) - maxlen)

\* the inner random loop: delete a random character until within the bound;
\* the set of all names the random choices can produce
RECURSIVE RandomShorten(_, _)
RandomShorten(name, maxlen) ==
    IF Len(name) <= maxlen THEN {name}
    ELSE UNION {RandomShorten(RemoveAt(name, index), maxlen) : index \in 1..Len(name)}

-----------------------------------------------------------------------------
(* ColumnNameMapping *)

MapperInit ==
    /\ dictionary = EmptyMap
    /\ mapped = FALSE
    /\ max_len \in 1..MaxMaxLen
    /\ pc = "idle"
    /\ reverse_dictionary = EmptyMap
    /\ problem_names = <<>>
    /\ cur = <<>>
    /\ arg = <<>>
    /\ ret = <<>>
    /\ first_id = EmptyMap
    /\ outcome = "ok"

\* add(feature_name)
Add(feature_name) ==
    /\ pc = "idle"
    /\ feature_name \in DOMAIN dictionary \/ Cardinality(DOMAIN dictionary) < MaxNames
    /\ dictionary' = [k \in DOMAIN dictionary \cup {feature_name} |->
                         IF k = feature_name THEN feature_name ELSE dictionary[k]]
    /\ mapped' = FALSE
    /\ ret' = <<>>
    /\ first_id' = [k \in DOMAIN first_id \ {feature_name} |-> first_id[k]]
    /\ outcome' = "ok"
    /\ UNCHANGED <<max_len, pc, reverse_dictionary, problem_names, cur, arg>>

\* the scan of the dictionary at the start of do_mapping, in iteration order
ReverseOf(order) ==
    [v \in Range(dictionary) |->
        LET last == CHOOSE i \in DOMAIN order :
                       /\ dictionary[order[i]] = v
                       /\ \A j \in DOMAIN order : dictionary[order[j]] = v => j <= i
        IN  order[last]]

ProblemsOf(order) ==
    LET values == [i \in DOMAIN order |-> dictionary[order[i]]]
        TooLong(v) == Len(v) > max_len
    IN  SelectSeq(values, TooLong)

\* __getitem__(feature_name), up to the start of do_mapping's main loop
GetItem(feature_name) ==
    /\ pc = "idle"
    /\ feature_name \in DOMAIN dictionary
    /\ arg' = feature_name
    /\ ret' = <<>>
    /\ outcome' = "ok"
    /\ IF mapped
       THEN /\ pc' = "return"
            /\ UNCHANGED <<reverse_dictionary, problem_names>>
       ELSE \E order \in Orders(DOMAIN dictionary) :
               /\ reverse_dictionary' = ReverseOf(order)
               /\ problem_names' = ProblemsOf(order)
               /\ pc' = "do_mapping"
    /\ UNCHANGED <<dictionary, mapped, max_len, cur, first_id>>

\* the end of one iteration of do_mapping's main loop
Commit(key, orig_name, name) ==
    /\ reverse_dictionary' =
           [v \in (DOMAIN reverse_dictionary \ {orig_name}) \cup {name} |->
               IF v = name THEN key ELSE reverse_dictionary[v]]
    /\ dictionary' = [dictionary EXCEPT ![key] = name]
    /\ problem_names' = Tail(problem_names)
    /\ cur' = <<>>
    /\ pc' = "do_mapping"

\* one iteration of do_mapping's main loop, up to the test of the while loop
MapName ==
    /\ pc = "do_mapping"
    /\ problem_names # <<>>
    /\ LET orig_name == Head(problem_names)
       IN  IF orig_name \notin DOMAIN reverse_dictionary
           THEN \* reverse_dictionary[name] raises KeyError
                /\ pc' = "idle"
                /\ outcome' = "KeyError"
                /\ UNCHANGED <<dictionary, reverse_dictionary, problem_names, cur>>
           ELSE LET key == reverse_dictionary[orig_name]
                    name == Shorten(orig_name, max_len)
                IN  /\ outcome' = outcome
                    /\ IF name \in DOMAIN reverse_dictionary
                       THEN /\ pc' = "retry"
                            /\ cur' = [key |-> key, orig_name |-> orig_name, name |-> name]
                            /\ UNCHANGED <<dictionary, reverse_dictionary, problem_names>>
                       ELSE Commit(key, orig_name, name)
    /\ UNCHANGED <<mapped, max_len, arg, ret, first_id>>

\* one turn of "while name in reverse_dictionary.keys()" whose random
\* deletions give a name that is taken as well
RetryCollide ==
    /\ pc = "retry"
    /\ \E name \in RandomShorten(cur.orig_name, max_len) :
          /\ name \in DOMAIN reverse_dictionary
          /\ cur' = [cur EXCEPT !.name = name]
    /\ UNCHANGED <<dictionary, mapped, max_len, pc, reverse_dictionary, problem_names,
                   arg, ret, first_id, outcome>>

\* one turn of the while loop whose random deletions give a free name
RetryRecover ==
    /\ pc = "retry"
    /\ \E name \in RandomShorten(cur.orig_name, max_len) :
          /\ name \notin DOMAIN reverse_dictionary
          /\ Commit(cur.key, cur.orig_name, name)
    /\ UNCHANGED <<mapped, max_len, arg, ret, first_id, outcome>>

\* the end of do_mapping and the return of __getitem__
Return ==
    /\ \/ pc = "return"
       \/ pc = "do_mapping" /\ problem_names = <<>>
    /\ pc' = "idle"
    /\ ret' = <<arg, dictionary[arg]>>
    /\ first_id' = IF arg \in DOMAIN first_id THEN first_id
                   ELSE [k \in DOMAIN first_id \cup {arg} |->
                            IF k = arg THEN dictionary[arg] ELSE first_id[k]]
    /\ reverse_dictionary' = EmptyMap
    /\ arg' = <<>>
    /\ UNCHANGED <<dictionary, mapped, max_len, problem_names, cur, outcome>>

MapperNext ==
    /\ \/ \E feature_name \in NameUniverse : Add(feature_name)
       \/ \E feature_name \in NameUniverse : GetItem(feature_name)
       \/ MapName
       \/ RetryCollide
       \/ RetryRecover
       \/ Return
    /\ UNCHANGED <<cfgVars, schemaVars, executed, rowVars, phase, envVars>>

-----------------------------------------------------------------------------
(* ExportToDatabase: names and the feature filter.  An object name, a       *)
(* feature and a column name are sequences of segments: the string is the   *)
(* segments joined by "_", so "%s_%s" % (a, b) is the concatenation a \o b. *)

DB_MYSQL == "MySQL"
DB_ORACLE == "Oracle"
DB_SQLITE == "SQLite"

IMAGE == <<"Image">>
EXPERIMENT == <<"Experiment">>
NEIGHBORS == <<"Neighbors">>
COLTYPE_INTEGER == "integer"
COLTYPE_FLOAT == "float"
AGG_MEAN == "Mean"
AGG_MEDIAN == "Median"
AGG_STD_DEV == "StDev"

\* "%s_%s" % (a, b)
Join(a, b) == a \o b

\* s.startswith(prefix + "_")
StartsWith(s, prefix) == Len(s) >= 2 /\ s[1] = prefix

ignore_object(object_name) == object_name \in {EXPERIMENT, NEIGHBORS}

\* variant: only the object name is looked at
ignore_feature_by_object(object_name, feature_name) ==
    ignore_object(object_name)

ignore_feature(object_name, feature_name) ==
    \/ ignore_object(object_name)
    \/ StartsWith(feature_name, "Description")
    \/ StartsWith(feature_name, "ModuleError")
    \/ StartsWith(feature_name, "TimeElapsed")
    \/ StartsWith(feature_name, "ExecutionTime")

agg_names ==
    LET Wanted(name) == name \in wants_agg
    IN  SelectSeq(<<AGG_MEAN, AGG_MEDIAN, AGG_STD_DEV>>, Wanted)

RECURSIVE Concat(_)
Concat(seqs) == IF seqs = <<>> THEN <<>> ELSE Head(seqs) \o Concat(Tail(seqs))

\* the position of the last occurrence of x in s
LastIndex(s, x) ==
    CHOOSE i \in DOMAIN s : s[i] = x /\ \A j \in DOMAIN s : s[j] = x => j <= i

-----------------------------------------------------------------------------
(* ExportToDatabase.create_database_tables *)

\* self.col_dict: the definitions of every object but Experiment, by object
ColDictOf(defs) ==
    [ob \in {d[1] : d \in Range(defs)} \ {EXPERIMENT} |->
        LET Mine(d) == d[1] = ob IN SelectSeq(defs, Mine)]

ObTables(defs) == {d[1] : d \in Range(defs)} \ {IMAGE, EXPERIMENT}

\* the retained definitions of the object table, in the order of the two
\* nested loops: by ob_table in the iteration order of the set, then by catalog
ObjectLoop(defs, ob_order) ==
    Concat([t \in DOMAIN ob_order |->
               LET Kept(d) == d[1] = ob_order[t] /\ ~ignore_feature(d[1], d[2])
               IN  SelectSeq(defs, Kept)])

\* agg_column_defs
AggColumnDefs(defs, ob_order) ==
    LET loop == ObjectLoop(defs, ob_order)
    IN  Concat([i \in DOMAIN loop |->
                   [a \in DOMAIN agg_names |->
                       <<IMAGE, Join(<<agg_names[a]>>, Join(loop[i][1], loop[i][2])),
                         COLTYPE_FLOAT>>]])

\* the column names of the CREATE TABLE statement of the object table, after
\* ImageNumber and ObjectNumber
ObjectColumns(defs, ob_order) ==
    LET loop == ObjectLoop(defs, ob_order)
    IN  [i \in DOMAIN loop |-> Join(loop[i][1], loop[i][2])]

\* self.object_col_order: c starts at 2 and a repeated name keeps the last c
ObjectColOrderOf(defs, ob_order) ==
    LET cols == ObjectColumns(defs, ob_order)
    IN  [name \in Range(cols) |-> LastIndex(cols, name) + 1]

\* the column names of the CREATE TABLE statement of the image table, after
\* ImageNumber
ImageColumns(defs, ob_order) ==
    LET agg_column_defs == AggColumnDefs(defs, ob_order)
        agg_features == {d[2] : d \in Range(agg_column_defs)}
        all == defs \o agg_column_defs
        Kept(d) == d[1] = IMAGE /\ ~ignore_feature(d[1], d[2])
        loop == SelectSeq(all, Kept)
    IN  [i \in DOMAIN loop |->
            IF loop[i][2] \notin agg_features
            THEN Join(loop[i][1], loop[i][2])
            ELSE loop[i][2]]

\* self.image_col_order: c starts at 1 and a repeated name keeps the last c
ImageColOrderOf(defs, ob_order) ==
    LET cols == ImageColumns(defs, ob_order)
    IN  [name \in Range(cols) |-> LastIndex(cols, name)]

Stmt(op, table, cols, rows) == [op |-> op, table |-> table, cols |-> cols, rows |-> rows]

\* the statements create_database_tables executes
TableStatements(defs, ob_order, create_database) ==
    (IF db_type = DB_MYSQL /\ create_database
     THEN <<Stmt("CREATE DATABASE", "", <<>>, <<>>)>> ELSE <<>>)
    \o <<Stmt("USE", "", <<>>, <<>>)>>
    \o (IF create_database
        THEN <<Stmt("DROP TABLE", "Per_Object", <<>>, <<>>),
               Stmt("CREATE TABLE", "Per_Object",
                    <<<<"ImageNumber">>, <<"ObjectNumber">>>>
                        \o ObjectColumns(defs, ob_order), <<>>),
               Stmt("DROP TABLE", "Per_Image", <<>>, <<>>),
               Stmt("CREATE TABLE", "Per_Image",
                    <<<<"ImageNumber">>>> \o ImageColumns(defs, ob_order), <<>>),
               Stmt("COMMIT", "", <<>>, <<>>)>>
        ELSE <<>>)

\* variant: a call that creates nothing initializes nothing
create_database_tables_skip(defs, create_database) ==
    \E ob_order \in Orders(ObTables(defs)) :
        /\ col_dict' = IF create_database THEN ColDictOf(defs) ELSE EmptyMap
        /\ object_col_order' =
               IF create_database THEN ObjectColOrderOf(defs, ob_order) ELSE EmptyMap
        /\ image_col_order' =
               IF create_database THEN ImageColOrderOf(defs, ob_order) ELSE EmptyMap
        /\ schema_set' = TRUE
        /\ executed' = executed \o TableStatements(defs, ob_order, create_database)

\* create_database_tables(cursor, column_defs, create_database)
create_database_tables(defs, create_database) ==
    \E ob_order \in Orders(ObTables(defs)) :
        /\ col_dict' = ColDictOf(defs)
        /\ object_col_order' = ObjectColOrderOf(defs, ob_order)
        /\ image_col_order' = ImageColOrderOf(defs, ob_order)
        /\ schema_set' = TRUE
        /\ executed' = executed \o TableStatements(defs, ob_order, create_database)

-----------------------------------------------------------------------------
(* The catalogs the schema is built from *)

TypeOf(feature) == IF feature[1] = "Count" THEN COLTYPE_INTEGER ELSE COLTYPE_FLOAT

Def(object_name, feature) == <<object_name, feature, TypeOf(feature)>>

\* column definitions: image features (one named like an aggregate column, one
\* filtered out), an experiment feature, object features (two whose joined
\* names coincide, one filtered out by its object, one by its prefix)
DefUniverse ==
    { Def(IMAGE, <<"Count", "Nuclei">>),
      Def(IMAGE, <<"Mean", "Nuclei", "Area">>),
      Def(IMAGE, <<"ModuleError", "1">>),
      Def(EXPERIMENT, <<"Run">>),
      Def(<<"Nuclei">>, <<"Area">>),
      Def(<<"Nuclei">>, <<"Area", "X">>),
      Def(<<"Nuclei", "Area">>, <<"X">>),
      Def(<<"Nuclei">>, <<"Description", "X">>),
      Def(<<"Cells">>, <<"Area">>),
      Def(NEIGHBORS, <<"Count">>) }

\* catalogs: sequences of pairwise distinct definitions
Catalogs ==
    UNION {{c \in [1..n -> DefUniverse] : Injective(c)} : n \in 0..MaxDefs}

AggKinds == {AGG_MEAN, AGG_MEDIAN, AGG_STD_DEV}

ExporterIdle ==
    /\ db_type = DB_MYSQL
    /\ store_csvs = FALSE
    /\ in_batch_mode = FALSE
    /\ column_defs = <<>>
    /\ wants_agg = {}
    /\ connected = FALSE
    /\ schema_set = FALSE
    /\ col_dict = EmptyMap
    /\ image_col_order = EmptyMap
    /\ object_col_order = EmptyMap
    /\ executed = <<>>
    /\ phase = "configured"

ResNone == [op |-> "none", raised |-> "none", sets |-> <<>>, stmts |-> <<>>, agg_calls |-> <<>>]

RowsIdle ==
    /\ meas = <<>>
    /\ image_set_start_number = 1
    /\ res = ResNone
    /\ warnings = <<>>
    /\ csv_image = <<>>
    /\ csv_object = <<>>

EnvIdle ==
    /\ script = <<>>
    /\ existing = {}
    /\ dialog = "none"

MapperIdle ==
    /\ dictionary = EmptyMap
    /\ mapped = FALSE
    /\ max_len = 64
    /\ pc = "idle"
    /\ reverse_dictionary = EmptyMap
    /\ problem_names = <<>>
    /\ cur = <<>>
    /\ arg = <<>>
    /\ ret = <<>>
    /\ first_id = EmptyMap
    /\ outcome = "ok"

-----------------------------------------------------------------------------
(* Measurement values.  A number is num/den, or its square root when root   *)
(* is set; den = 0 is a non-finite value (NaN).                             *)

Num(n) == [num |-> n, den |-> 1, root |-> FALSE]
NaN == [num |-> 0, den |-> 0, root |-> FALSE]
Zero == Num(0)

\* np.isfinite(value)
IsFinite(v) == v.den # 0

\* int(value)
IntOf(v) == v.num \div v.den

\* variant: the later value wins
Max_last(a, b) == b

\* max(a, b)
Max(a, b) == IF a >= b THEN a ELSE b

\* name.find('Count') != -1
ContainsCount(name) == \E i \in DOMAIN name : name[i] = "Count"

RECURSIVE Sum(_)
Sum(s) == IF s = <<>> THEN 0 ELSE Head(s) + Sum(Tail(s))

RECURSIVE Gcd(_, _)
Gcd(a, b) == IF b = 0 THEN a ELSE Gcd(b, a % b)

Ratio(n, d) == LET g == Gcd(n, d) IN [num |-> n \div g, den |-> d \div g, root |-> FALSE]

\* the aggregation primitive of the measurement source (cellprofiler.measurements):
\* the statistic over the finite values of one vector
AggValue(agg_name, values) ==
    LET Finite(v) == IsFinite(v)
        kept == SelectSeq(values, Finite)
        xs == [i \in DOMAIN kept |-> kept[i].num]
        n == Len(xs)
        sorted == SortSeq(xs, LAMBDA a, b : a < b)
        variance == Ratio(n * Sum([i \in DOMAIN xs |-> xs[i] * xs[i]]) - Sum(xs) * Sum(xs),
                          n * n)
    IN  IF n = 0 THEN NaN
        ELSE CASE agg_name = AGG_MEAN -> Ratio(Sum(xs), n)
               [] agg_name = AGG_MEDIAN ->
                      IF n % 2 = 1 THEN Num(sorted[(n + 1) \div 2])
                      ELSE Ratio(sorted[n \div 2] + sorted[n \div 2 + 1], 2)
               [] OTHER -> IF variance.num = 0 THEN Zero
                           ELSE [variance EXCEPT !.root = TRUE]

\* the object features of one image set's store that are aggregated, with
\* each requested aggregate kind
AggEntries(m) ==
    {<<agg_names[a], k>> : a \in DOMAIN agg_names,
                           k \in {k \in DOMAIN m : k[1] # IMAGE /\ ~ignore_feature(k[1], k[2])}}

AggName(e) == Join(<<e[1]>>, Join(e[2][1], e[2][2]))

\* measurements.compute_aggregate_measurements(index, agg_names)
compute_aggregate_measurements(m) ==
    [name \in {AggName(e) : e \in AggEntries(m)} |->
        LET e == CHOOSE e \in AggEntries(m) : AggName(e) = name
        IN  AggValue(e[1], m[e[2]])]

\* values[np.logical_not(np.isfinite(values))] = 0
Sanitize(values) == [i \in DOMAIN values |-> IF IsFinite(values[i]) THEN values[i] ELSE Zero]

\* a warning line on sys.stderr
Warning(kind, feature_name, image_number, nvalues, max_count) ==
    [kind |-> kind, feature_name |-> feature_name, image_number |-> image_number,
     got |-> nvalues, expected |-> max_count]

\* variant: only a vector that is too short is reported
CountWarnings_few(feature_name, image_number, nvalues, max_count) ==
    IF nvalues < max_count
    THEN <<Warning("too few", feature_name, image_number, nvalues, max_count)>>
    ELSE <<>>

\* the warnings of one feature, as both writers emit them
CountWarnings(feature_name, image_number, nvalues, max_count) ==
    IF nvalues < max_count
    THEN <<Warning("too few", feature_name, image_number, nvalues, max_count)>>
    ELSE IF nvalues > max_count
         THEN <<Warning("too many", feature_name, image_number, nvalues, max_count)>>
         ELSE <<>>

\* the store of an image set after the vectors of the features in `processed`
\* were fetched: their non-finite entries are replaced in place
SanitizedStore(m, processed) ==
    [k \in DOMAIN m |->
        IF \E i \in DOMAIN processed : <<processed[i][1], processed[i][2]>> = k
        THEN Sanitize(m[k]) ELSE m[k]]

-----------------------------------------------------------------------------
(* ExportToDatabase.write_data_to_db *)

None == <<>>

\* the loop over self.col_dict[cpmeas.IMAGE]: <<image_row, max_count>>
RECURSIVE DbImageLoop(_, _, _, _)
DbImageLoop(cols, m, image_row, max_count) ==
    IF cols = <<>> THEN <<image_row, max_count>>
    ELSE LET m_col == Head(cols)
             feature_name == Join(IMAGE, m_col[2])
             fetched == m[<<IMAGE, m_col[2]>>]
             value == IF ~IsFinite(fetched) THEN Zero ELSE fetched
         IN  IF feature_name \in DOMAIN image_col_order
             THEN DbImageLoop(Tail(cols), m,
                      [image_row EXCEPT ![image_col_order[feature_name]] =
                                            <<value, m_col[3], feature_name>>],
                      IF ContainsCount(feature_name)
                      THEN Max(max_count, IntOf(value)) ELSE max_count)
             ELSE DbImageLoop(Tail(cols), m, image_row, max_count)

\* the cells that `values` (column name -> value) puts into the image row,
\* for the names that have a position
WithFloatCells(image_row, values) ==
    [pos \in DOMAIN image_row |->
        IF \E name \in DOMAIN values \cap DOMAIN image_col_order : image_col_order[name] = pos
        THEN LET name == CHOOSE name \in DOMAIN values \cap DOMAIN image_col_order :
                             image_col_order[name] = pos
             IN  <<values[name], COLTYPE_FLOAT, name>>
        ELSE image_row[pos]]

\* variant: only the first requested aggregate kind is zero-filled
DbZeroAggregates_first ==
    LET names == UNION {{Join(<<agg_names[a]>>, Join(ob, col_dict[ob][i][2])) :
                            a \in DOMAIN agg_names \cap {1}, i \in DOMAIN col_dict[ob]} :
                        ob \in DOMAIN col_dict \ {IMAGE}}
    IN  [name \in names |-> Zero]

\* max_count == 0: every aggregate of every column of col_dict is 0
DbZeroAggregates ==
    LET names == UNION {{Join(<<agg_names[a]>>, Join(ob, col_dict[ob][i][2])) :
                            a \in DOMAIN agg_names, i \in DOMAIN col_dict[ob]} :
                        ob \in DOMAIN col_dict \ {IMAGE}}
    IN  [name \in names |-> Zero]

\* variant: the aggregates computed after the loop over the object columns
db_agg_dict_late(m) ==
    compute_aggregate_measurements(
        [k \in DOMAIN m |-> IF k[1] = IMAGE THEN m[k] ELSE Sanitize(m[k])])

\* the aggregates as computed when write_data_to_db asks for them: before the
\* loop over the object columns
db_agg_dict(m) == compute_aggregate_measurements(m)

\* the definitions visited by the loop over self.col_dict.items(), the
\* objects in iteration order
DbObjectLoop(ob_order) == Concat([t \in DOMAIN ob_order |-> col_dict[ob_order[t]]])

\* variant: too many values keep the last max_count
DbAdjust_tail(values, max_count) ==
    LET nvalues == Len(values)
    IN  IF nvalues < max_count
        THEN [i \in 1..max_count |-> IF i <= nvalues THEN values[i] ELSE Zero]
        ELSE IF nvalues > max_count
             THEN SubSeq(values, nvalues - max_count + 1, nvalues)
             ELSE values

\* too few values: padded with zeros; too many: the first max_count
DbAdjust(values, max_count) ==
    LET nvalues == Len(values)
    IN  IF nvalues < max_count
        THEN [i \in 1..max_count |-> IF i <= nvalues THEN values[i] ELSE Zero]
        ELSE IF nvalues > max_count THEN SubSeq(values, 1, max_count)
             ELSE values

BatchSize == 25

\* variant: the rows after the last full group are not sent
Batches_full(object_rows) ==
    LET len == Len(object_rows)
        starts == [b \in 1..(len \div BatchSize) |-> (b - 1) * BatchSize]
    IN  [b \in DOMAIN starts |->
            SubSeq(object_rows, starts[b] + 1,
                   IF starts[b] + BatchSize <= len THEN starts[b] + BatchSize ELSE len)]

\* for i in range(0, len(object_rows), 25): object_rows[i:min(i+25, len(object_rows))]
Batches(object_rows) ==
    LET len == Len(object_rows)
        starts == [b \in 1..((len + BatchSize - 1) \div BatchSize) |-> (b - 1) * BatchSize]
    IN  [b \in DOMAIN starts |->
            SubSeq(object_rows, starts[b] + 1,
                   IF starts[b] + BatchSize <= len THEN starts[b] + BatchSize ELSE len)]

\* variant: the commit is issued right after the image row
DbStatements_commit_early(image_row, object_cols, batches) ==
    <<Stmt("INSERT", "Per_Image",
           [k \in DOMAIN image_row |-> image_row[k][3]],
           <<[k \in DOMAIN image_row |-> image_row[k][1]]>>),
      Stmt("COMMIT", "", <<>>, <<>>)>>
    \o [b \in DOMAIN batches |->
           Stmt("INSERT", "Per_Object", object_cols,
                [r \in DOMAIN batches[b] |->
                    [k \in DOMAIN batches[b][r] |-> batches[b][r][k][1]]])]

\* the statements of one image set: the INSERT of the image row, one
\* executemany per batch of object rows, then connection.commit()
DbStatements(image_row, object_cols, batches) ==
    <<Stmt("INSERT", "Per_Image",
           [k \in DOMAIN image_row |-> image_row[k][3]],
           <<[k \in DOMAIN image_row |-> image_row[k][1]]>>)>>
    \o [b \in DOMAIN batches |->
           Stmt("INSERT", "Per_Object", object_cols,
                [r \in DOMAIN batches[b] |->
                    [k \in DOMAIN batches[b][r] |-> batches[b][r][k][1]]])]
    \o <<Stmt("COMMIT", "", <<>>, <<>>)>>

\* everything write_data_to_db does for image set `index` with store m
WriteDataToDbResult(m, index, ob_order) ==
    LET image_number == index + image_set_start_number
        n_image == Cardinality(DOMAIN image_col_order)
        n_object == Cardinality(DOMAIN object_col_order)
        row0 == [k \in 0..n_image |->
                    IF k = 0
                    THEN <<Num(image_number), COLTYPE_INTEGER, <<"ImageNumber">>>>
                    ELSE None]
        image_cols == IF IMAGE \in DOMAIN col_dict THEN col_dict[IMAGE] ELSE <<>>
        filled == DbImageLoop(image_cols, m, row0, 0)
        max_count == filled[2]
        \* an assignment beyond the end of image_row or object_cols
        image_overflow ==
            \E i \in DOMAIN image_cols :
                LET name == Join(IMAGE, image_cols[i][2])
                IN  name \in DOMAIN image_col_order /\ image_col_order[name] > n_image
        object_overflow ==
            \E key \in DOMAIN object_col_order : object_col_order[key] > n_object + 1
        agg_values == IF max_count = 0 THEN DbZeroAggregates ELSE db_agg_dict(m)
        agg_overflow ==
            \E name \in DOMAIN agg_values \cap DOMAIN image_col_order :
                image_col_order[name] > n_image
        object_cols ==
            [k \in 0..n_object + 1 |->
                IF k = 0 THEN <<"ImageNumber">>
                ELSE IF k = 1 THEN <<"ObjectNumber">>
                ELSE IF \E key \in DOMAIN object_col_order : object_col_order[key] = k
                     THEN CHOOSE key \in DOMAIN object_col_order : object_col_order[key] = k
                     ELSE None]
        loop == DbObjectLoop(ob_order)
        NameOf(i) == Join(loop[i][1], loop[i][2])
        missing == {i \in DOMAIN loop : NameOf(i) \notin DOMAIN object_col_order}
        early == image_overflow \/ object_overflow \/ agg_overflow
        fail_at == IF early \/ max_count = 0 \/ missing = {} THEN 0
                   ELSE CHOOSE i \in missing : \A j \in missing : i <= j
        processed == IF early \/ max_count = 0 THEN <<>>
                     ELSE IF fail_at = 0 THEN loop ELSE SubSeq(loop, 1, fail_at)
        image_row == WithFloatCells(filled[1], agg_values)
        Writers(k) == {i \in DOMAIN loop : NameOf(i) \in DOMAIN object_col_order
                                           /\ object_col_order[NameOf(i)] = k}
        Column(k) ==
            LET i == CHOOSE i \in Writers(k) : \A j \in Writers(k) : j <= i
            IN  DbAdjust(Sanitize(m[<<loop[i][1], loop[i][2]>>]), max_count)
        object_rows ==
            [i \in 1..max_count |->
                [k \in 0..n_object + 1 |->
                    IF k = 0 THEN <<Num(image_number), COLTYPE_INTEGER>>
                    ELSE IF k = 1 THEN <<Num(i), COLTYPE_INTEGER>>
                    ELSE IF Writers(k) # {} THEN <<Column(k)[i], COLTYPE_FLOAT>>
                    ELSE None]]
        \* a cell that was never assigned cannot be unpacked when formatted
        unset == \/ \E k \in DOMAIN image_row : image_row[k] = None
                 \/ max_count > 0 /\ \E k \in 2..n_object + 1 : Writers(k) = {}
        raised == IF early THEN "IndexError"
                  ELSE IF fail_at > 0 THEN "KeyError"
                  ELSE IF unset THEN "TypeError"
                  ELSE "none"
        batches == Batches(object_rows)
        stmts == DbStatements(image_row, object_cols, batches)
    IN  [raised |-> raised,
         sets |-> IF raised = "none"
                  THEN <<[index |-> index, image_number |-> image_number,
                          max_count |-> max_count, image_row |-> image_row,
                          object_rows |-> object_rows]>>
                  ELSE <<>>,
         stmts |-> IF raised = "none" THEN stmts ELSE <<>>,
         agg_calls |-> IF max_count > 0 /\ ~image_overflow /\ ~object_overflow
                       THEN <<index>> ELSE <<>>,
         warnings |-> Concat([i \in DOMAIN processed |->
                                 CountWarnings(Join(processed[i][1], processed[i][2]),
                                               image_number,
                                               Len(m[<<processed[i][1], processed[i][2]>>]),
                                               max_count)]),
         store |-> SanitizedStore(m, processed)]

\* variant: every image set is written as the first one
write_data_to_db_first ==
    LET index == Len(meas) - 1
    IN  IF ~schema_set
        THEN /\ res' = [ResNone EXCEPT !.op = "write_data_to_db", !.raised = "AttributeError"]
             /\ UNCHANGED <<meas, warnings, executed>>
        ELSE \E ob_order \in Orders(DOMAIN col_dict \ {IMAGE, EXPERIMENT}) :
                 \E r \in {WriteDataToDbResult(meas[index + 1], 0, ob_order)} :
                     /\ res' = [op |-> "write_data_to_db", raised |-> r.raised,
                                sets |-> r.sets, stmts |-> r.stmts,
                                agg_calls |-> r.agg_calls]
                     /\ meas' = [meas EXCEPT ![index + 1] = r.store]
                     /\ warnings' = warnings \o r.warnings
                     /\ executed' = executed \o r.stmts

\* write_data_to_db(workspace, mappings) for the image set measurements.image_set_index
write_data_to_db ==
    LET index == Len(meas) - 1
    IN  IF ~schema_set
        THEN \* self.image_col_order is not set
             /\ res' = [ResNone EXCEPT !.op = "write_data_to_db", !.raised = "AttributeError"]
             /\ UNCHANGED <<meas, warnings, executed>>
        ELSE \E ob_order \in Orders(DOMAIN col_dict \ {IMAGE, EXPERIMENT}) :
                 \E r \in {WriteDataToDbResult(meas[index + 1], index, ob_order)} :
                     /\ res' = [op |-> "write_data_to_db", raised |-> r.raised,
                                sets |-> r.sets, stmts |-> r.stmts,
                                agg_calls |-> r.agg_calls]
                     /\ meas' = [meas EXCEPT ![index + 1] = r.store]
                     /\ warnings' = warnings \o r.warnings
                     /\ executed' = executed \o r.stmts

-----------------------------------------------------------------------------
(* The measurement source as the file writer reads it: the object names and *)
(* the feature names of the measurements are those of the catalog.          *)

RECURSIVE Distinct(_)
Distinct(s) ==
    IF s = <<>> THEN <<>>
    ELSE LET NotHead(x) == x # Head(s)
         IN  <<Head(s)>> \o Distinct(SelectSeq(Tail(s), NotHead))

\* measurements.get_object_names()
get_object_names(defs) == Distinct([i \in DOMAIN defs |-> defs[i][1]])

\* measurements.get_feature_names(object_name)
get_feature_names(defs, object_name) ==
    LET Mine(d) == d[1] = object_name
        mine == SelectSeq(defs, Mine)
    IN  [i \in DOMAIN mine |-> mine[i][2]]

\* the retained <<object name, feature>> pairs of the objects other than
\* Image, in the order of the loops over get_object_names and get_feature_names
FileObjectLoop(defs) ==
    LET names == get_object_names(defs)
    IN  Concat([t \in DOMAIN names |->
                   LET features == get_feature_names(defs, names[t])
                       Kept(f) == names[t] # IMAGE /\ ~ignore_feature(names[t], f)
                       kept == SelectSeq(features, Kept)
                   IN  [i \in DOMAIN kept |-> <<names[t], kept[i]>>]])

-----------------------------------------------------------------------------
(* ExportToDatabase.write_mysql_table_defs: per_image and per_object *)

PerImageColumns(defs) ==
    LET Kept(d) == d[1] = IMAGE /\ ~ignore_feature(d[1], d[2])
        image == SelectSeq(defs, Kept)
        loop == FileObjectLoop(defs)
    IN  [i \in DOMAIN image |-> Join(image[i][1], image[i][2])]
        \o Concat([a \in DOMAIN agg_names |->
                      [i \in DOMAIN loop |->
                          Join(<<agg_names[a]>>, Join(loop[i][1], loop[i][2]))]])

per_image_of(defs) ==
    LET cols == PerImageColumns(defs)
    IN  [name \in {<<"ImageNumber">>} \cup Range(cols) |->
            IF name \in Range(cols) THEN LastIndex(cols, name) ELSE 0]

PerObjectColumns(defs) ==
    LET loop == FileObjectLoop(defs)
    IN  [i \in DOMAIN loop |-> Join(loop[i][1], loop[i][2])]

per_object_of(defs) ==
    LET cols == PerObjectColumns(defs)
    IN  [name \in {<<"ImageNumber">>, <<"ObjectNumber">>} \cup Range(cols) |->
            IF name \in Range(cols) THEN LastIndex(cols, name) + 1
            ELSE IF name = <<"ObjectNumber">> THEN 1 ELSE 0]

\* write_mysql_table_defs(workspace, mappings): the columns of the two CREATE
\* TABLE statements it writes to the setup script, by feature name (the script
\* names each column mappings[feature_name]); it returns per_image_of and
\* per_object_of
write_mysql_table_defs(defs) ==
    script' = [per_image |-> <<<<"ImageNumber">>>> \o PerImageColumns(defs),
               per_object |-> <<<<"ImageNumber">>, <<"ObjectNumber">>>>
                                  \o PerObjectColumns(defs)]

-----------------------------------------------------------------------------
(* The two schema builders alone *)

\* the configurations that build a schema: a connected module, or MySQL with
\* CSV files; any catalog, any aggregates
SchemaInit ==
    /\ MapperIdle
    /\ db_type \in {DB_MYSQL, DB_SQLITE}
    /\ store_csvs \in BOOLEAN
    /\ store_csvs => db_type = DB_MYSQL
    /\ in_batch_mode \in BOOLEAN
    /\ store_csvs => ~in_batch_mode
    /\ column_defs \in Catalogs
    /\ wants_agg \in SUBSET AggKinds
    /\ connected = ~store_csvs
    /\ schema_set = FALSE
    /\ col_dict = EmptyMap
    /\ image_col_order = EmptyMap
    /\ object_col_order = EmptyMap
    /\ executed = <<>>
    /\ phase = "configured"
    /\ RowsIdle
    /\ EnvIdle

CreateDatabaseTables ==
    /\ connected
    /\ ~schema_set
    /\ create_database_tables(column_defs, ~in_batch_mode)
    /\ UNCHANGED <<mapperVars, cfgVars, connected, rowVars, phase, envVars>>

WriteMysqlTableDefs ==
    /\ store_csvs
    /\ script = <<>>
    /\ write_mysql_table_defs(column_defs)
    /\ UNCHANGED <<mapperVars, cfgVars, schemaVars, executed, rowVars, phase,
                   existing, dialog>>

SchemaNext == CreateDatabaseTables \/ WriteMysqlTableDefs

SpecSchema == SchemaInit /\ [][SchemaNext]_vars

-----------------------------------------------------------------------------
(* ExportToDatabase.write_data *)

\* the loop over measurements.get_feature_names('Image'): <<image_row, max_count>>
RECURSIVE FileImageLoop(_, _, _, _, _)
FileImageLoop(features, m, per_image, image_row, max_count) ==
    IF features = <<>> THEN <<image_row, max_count>>
    ELSE LET feature == Head(features)
             feature_name == Join(IMAGE, feature)
             value == m[<<IMAGE, feature>>]
         IN  IF ignore_feature(IMAGE, feature)
             THEN FileImageLoop(Tail(features), m, per_image, image_row, max_count)
             ELSE FileImageLoop(Tail(features), m, per_image,
                      [image_row EXCEPT ![per_image[feature_name]] = <<value>>],
                      IF ContainsCount(feature_name)
                      THEN Max(max_count, IntOf(value)) ELSE max_count)

\* the cells that `values` (column name -> value) puts into the image row
WithCells(image_row, per_image, values) ==
    [pos \in DOMAIN image_row |->
        IF \E name \in DOMAIN values \cap DOMAIN per_image : per_image[name] = pos
        THEN LET name == CHOOSE name \in DOMAIN values \cap DOMAIN per_image :
                             per_image[name] = pos
             IN  <<values[name]>>
        ELSE image_row[pos]]

\* variant: only the first requested aggregate kind is zero-filled
FileZeroAggregates_first(defs) ==
    LET loop == FileObjectLoop(defs)
    IN  [name \in {Join(<<agg_names[a]>>, Join(loop[i][1], loop[i][2])) :
                      a \in DOMAIN agg_names \cap {1}, i \in DOMAIN loop} |-> Zero]

\* max_count == 0: every aggregate of every retained object feature is 0
FileZeroAggregates(defs) ==
    LET loop == FileObjectLoop(defs)
    IN  [name \in {Join(<<agg_names[a]>>, Join(loop[i][1], loop[i][2])) :
                      a \in DOMAIN agg_names, i \in DOMAIN loop} |-> Zero]

\* the aggregates as computed when write_data asks for them: before the loop
\* over the objects
file_agg_dict(m) == compute_aggregate_measurements(m)

\* the column that "object_rows[:nvalues, col] = values" leaves in the
\* zero-filled array, values being cut to max_count when there are too many
FileAdjust(values, max_count) ==
    LET nvalues == Len(values)
        cut == IF nvalues > max_count THEN SubSeq(values, 1, max_count) ELSE values
    IN  [i \in 1..max_count |-> IF i <= nvalues THEN cut[i] ELSE Zero]

MaxOf(S) == CHOOSE x \in S : \A y \in S : y <= x

\* image_row = [None for k in range(per_image_cols)]; image_row[per_image['ImageNumber']] = image_number
FileRow0(per_image, image_number) ==
    [k \in 0..MaxOf(Range(per_image)) |->
        IF k = per_image[<<"ImageNumber">>] THEN <<Num(image_number)>> ELSE None]

\* object_rows: zeros, then the image and object numbers, then the loop over
\* the retained object features, each writing its column
FileObjectRows(m, image_number, per_object, max_count, loop) ==
    LET Writers(k) == {j \in DOMAIN loop : per_object[Join(loop[j][1], loop[j][2])] = k}
        Last(k) == CHOOSE j \in Writers(k) : \A h \in Writers(k) : h <= j
    IN  [r \in 1..max_count |->
            [k \in 0..MaxOf(Range(per_object)) |->
                IF k = per_object[<<"ImageNumber">>] THEN <<Num(image_number)>>
                ELSE IF k = per_object[<<"ObjectNumber">>] THEN <<Num(r)>>
                ELSE IF Writers(k) # {}
                     THEN <<FileAdjust(Sanitize(m[loop[Last(k)]]), max_count)[r]>>
                     ELSE <<Zero>>]]

FileWarnings(m, image_number, max_count, loop) ==
    Concat([j \in DOMAIN loop |->
               CountWarnings(Join(loop[j][1], loop[j][2]), image_number,
                             Len(m[loop[j]]), max_count)])

\* the object part of one turn: `loop` is what the loop over the objects visits
WriteDataObjects(m, i, image_number, per_object, max_count, image_row, loop) ==
    [set |-> [index |-> i, image_number |-> image_number, max_count |-> max_count,
              image_row |-> image_row,
              object_rows |-> FileObjectRows(m, image_number, per_object, max_count, loop)],
     agg_calls |-> IF max_count > 0 THEN <<i>> ELSE <<>>,
     warnings |-> FileWarnings(m, image_number, max_count, loop),
     store |-> SanitizedStore(m, loop)]

\* the aggregate part of one turn: filled is <<image_row, max_count>> after the
\* loop over the image features
WriteDataAggregates(defs, m, i, image_number, per_image, per_object, filled) ==
    WriteDataObjects(m, i, image_number, per_object, filled[2],
        WithCells(filled[1], per_image,
                  IF filled[2] = 0 THEN FileZeroAggregates(defs) ELSE file_agg_dict(m)),
        IF filled[2] = 0 THEN <<>> ELSE FileObjectLoop(defs))

WriteDataImage(defs, m, i, image_number, per_image, per_object) ==
    WriteDataAggregates(defs, m, i, image_number, per_image, per_object,
        FileImageLoop(get_feature_names(defs, IMAGE), m, per_image,
                      FileRow0(per_image, image_number), 0))

\* one turn of write_data's loop over the image sets: image set i with store m
WriteDataSet(defs, m, i) ==
    WriteDataImage(defs, m, i, i + image_set_start_number,
                   per_image_of(defs), per_object_of(defs))

QUOTE_MINIMAL == "QUOTE_MINIMAL"
QUOTE_NONNUMERIC == "QUOTE_NONNUMERIC"

\* csv.writer(fid, quoting=quoting).writerow(row): the fields and whether each
\* is written in quotes.  QUOTE_NONNUMERIC quotes the fields that are not
\* numbers; QUOTE_MINIMAL quotes the fields that hold a delimiter, a quote or
\* a line end, which no number (and no None, written as the empty field) does.
writerow(quoting, row) ==
    [k \in DOMAIN row |->
        [field |-> row[k],
         quoted |-> quoting = QUOTE_NONNUMERIC /\ row[k] = None]]

\* write_data(workspace, mappings, per_image, per_object), the dictionaries
\* being those of write_mysql_table_defs
write_data ==
    \E r \in {[i \in DOMAIN meas |-> WriteDataSet(column_defs, meas[i], i - 1)]} :
        /\ res' = [op |-> "write_data", raised |-> "none",
                   sets |-> [i \in DOMAIN meas |-> r[i].set],
                   stmts |-> <<>>,
                   agg_calls |-> Concat([i \in DOMAIN meas |-> r[i].agg_calls])]
        /\ meas' = [i \in DOMAIN meas |-> r[i].store]
        /\ warnings' = warnings \o Concat([i \in DOMAIN meas |-> r[i].warnings])
        /\ csv_image' = [i \in DOMAIN meas |->
                             writerow(QUOTE_NONNUMERIC, r[i].set.image_row)]
        /\ csv_object' = Concat([i \in DOMAIN meas |->
                                    [j \in DOMAIN r[i].set.object_rows |->
                                        writerow(QUOTE_MINIMAL, r[i].set.object_rows[j])]])

-----------------------------------------------------------------------------
(* The two row writers on one image set *)

MaxCount == 3
MaxVecLen == 3

\* catalogs: one count and one object feature; two counts; two objects; no
\* count; an object feature filtered out by its prefix; an object filtered out
RowCatalogs ==
    { <<Def(IMAGE, <<"Count", "Nuclei">>), Def(<<"Nuclei">>, <<"AreaShape", "Area">>)>>,
      <<Def(IMAGE, <<"Count", "Nuclei">>), Def(IMAGE, <<"Count", "Cells">>),
        Def(<<"Nuclei">>, <<"AreaShape", "Area">>)>>,
      <<Def(IMAGE, <<"Count", "Nuclei">>), Def(<<"Nuclei">>, <<"AreaShape", "Area">>),
        Def(<<"Cells">>, <<"AreaShape", "Area">>)>>,
      <<Def(EXPERIMENT, <<"Run">>), Def(IMAGE, <<"Intensity", "Mean">>),
        Def(IMAGE, <<"ModuleError", "1">>), Def(<<"Nuclei">>, <<"AreaShape", "Area">>)>>,
      <<Def(IMAGE, <<"Count", "Nuclei">>), Def(<<"Nuclei">>, <<"AreaShape", "Area">>),
        Def(<<"Nuclei">>, <<"Description", "X">>)>>,
      <<Def(IMAGE, <<"Count", "Nuclei">>), Def(IMAGE, <<"Intensity", "Mean">>),
        Def(NEIGHBORS, <<"NumberOfNeighbors">>)>> }

\* the per-object vectors of a feature: finite and non-finite entries
Vectors == UNION {[1..n -> {Num(1), Num(2), NaN}] : n \in 0..MaxVecLen}

\* the vectors used when a catalog has several object features
FewVectors == {<<>>, <<Num(2)>>, <<NaN, Num(1)>>}

\* the values a measurement of definition d can have
ValuesOf(d, counts, vectors) ==
    IF ignore_feature(d[1], d[2]) THEN (IF d[1] = IMAGE THEN {Zero} ELSE {<<Num(1)>>})
    ELSE IF d[1] # IMAGE THEN vectors
    ELSE IF d[3] = COLTYPE_INTEGER THEN {Num(k) : k \in counts}
    ELSE {Num(1), NaN}

\* the stores of one image set for the catalog defs
RECURSIVE StoresOf(_, _, _)
StoresOf(defs, counts, vectors) ==
    IF defs = <<>> THEN {EmptyMap}
    ELSE IF defs[1][1] = EXPERIMENT THEN StoresOf(Tail(defs), counts, vectors)
    ELSE {[k \in DOMAIN f \cup {<<defs[1][1], defs[1][2]>>} |->
              IF k = <<defs[1][1], defs[1][2]>> THEN v ELSE f[k]] :
             f \in StoresOf(Tail(defs), counts, vectors),
             v \in ValuesOf(defs[1], counts, vectors)}

\* the schema is set up for the catalog
SchemaReady ==
    /\ MapperIdle
    /\ db_type = DB_MYSQL
    /\ store_csvs = FALSE
    /\ in_batch_mode = FALSE
    /\ connected = TRUE
    /\ schema_set = TRUE
    /\ col_dict = ColDictOf(column_defs)
    /\ \E ob_order \in Orders(ObTables(column_defs)) :
          /\ object_col_order = ObjectColOrderOf(column_defs, ob_order)
          /\ image_col_order = ImageColOrderOf(column_defs, ob_order)
    /\ executed = <<>>
    /\ phase = "prepared"
    /\ image_set_start_number = 1
    /\ res = ResNone
    /\ warnings = <<>>
    /\ csv_image = <<>>
    /\ csv_object = <<>>
    /\ EnvIdle

\* the schema is set up for a catalog and one image set is measured; a count
\* is any integer from -1 to MaxCount
RowsInit ==
    /\ column_defs \in RowCatalogs
    /\ wants_agg \in SUBSET AggKinds
    /\ SchemaReady
    /\ meas \in {<<m>> : m \in StoresOf(column_defs, -1..MaxCount,
                                        IF Len(FileObjectLoop(column_defs)) > 1
                                        THEN FewVectors ELSE Vectors)}


WriteDataToDb ==
    /\ res.op = "none"
    /\ write_data_to_db
    /\ UNCHANGED <<mapperVars, cfgVars, schemaVars, image_set_start_number,
                   csv_image, csv_object, phase, envVars>>

WriteData ==
    /\ res.op = "none"
    /\ write_data
    /\ UNCHANGED <<mapperVars, cfgVars, schemaVars, executed, image_set_start_number,
                   phase, envVars>>

RowsNext == WriteDataToDb \/ WriteData

SpecRows == RowsInit /\ [][RowsNext]_vars

-----------------------------------------------------------------------------
(* The relational writer on image sets of many objects *)

MaxRows == 53

BatchInit ==
    /\ column_defs = <<Def(IMAGE, <<"Count", "Nuclei">>),
                       Def(<<"Nuclei">>, <<"AreaShape", "Area">>)>>
    /\ wants_agg \in {{}, {AGG_MEAN}}
    /\ SchemaReady
    /\ meas \in {<<m>> : m \in StoresOf(column_defs, 0..MaxRows, {<<>>, <<Num(1), NaN>>})}

BatchNext == WriteDataToDb

SpecBatch == BatchInit /\ [][BatchNext]_vars

-----------------------------------------------------------------------------
(* The module in a pipeline run: prepare_run, then run after each image     *)
(* set's measurements, then post_run.                                       *)

MaxImageSets == 2

\* the third catalog has an object feature whose column name is 81 characters
RunCatalogs ==
    { <<Def(IMAGE, <<"Count", "Nuclei">>), Def(<<"Nuclei">>, <<"AreaShape", "Area">>)>>,
      <<Def(IMAGE, <<"Intensity", "Mean">>), Def(<<"Nuclei">>, <<"AreaShape", "Area">>)>>,
      <<Def(IMAGE, <<"Count", "Nuclei">>),
        Def(<<"Nuclei">>, <<"Texture", "AngularSecondMoment", "OrigBlueChannelCorrected",
                            "3", "HorizontalDirection">>)>> }

RunInit ==
    /\ MapperIdle
    /\ db_type \in {DB_MYSQL, DB_ORACLE, DB_SQLITE}
    /\ store_csvs \in BOOLEAN
    /\ in_batch_mode \in BOOLEAN
    /\ column_defs \in RunCatalogs
    /\ wants_agg \in {{}, {AGG_MEAN}}
    /\ connected = FALSE
    /\ schema_set = FALSE
    /\ col_dict = EmptyMap
    /\ image_col_order = EmptyMap
    /\ object_col_order = EmptyMap
    /\ executed = <<>>
    /\ phase = "configured"
    /\ RowsIdle
    /\ script = <<>>
    /\ existing \in SUBSET {"Per_Image", "Per_Object"}
    /\ dialog = "none"

Raised(op, exception) == [ResNone EXCEPT !.op = op, !.raised = exception]

\* both SELECTs of prepare_run succeed
tables_exist == {"Per_Image", "Per_Object"} \subseteq existing

\* variant: the backend is only looked at when a connection is wanted
prepare_run_late(answer) ==
    IF store_csvs
    THEN /\ res' = Raised("prepare_run", "none")
         /\ phase' = "prepared"
         /\ UNCHANGED <<schemaVars, executed, dialog>>
    ELSE IF db_type = DB_ORACLE
    THEN /\ connected' = TRUE
         /\ res' = Raised("prepare_run", "NotImplementedError")
         /\ phase' = "failed"
         /\ UNCHANGED <<schema_set, col_dict, image_col_order, object_col_order,
                        executed, dialog>>
    ELSE IF tables_exist /\ answer = "cancel"
    THEN /\ connected' = TRUE
         /\ dialog' = "cancel"
         /\ res' = Raised("prepare_run", "none")
         /\ phase' = "refused"
         /\ UNCHANGED <<schema_set, col_dict, image_col_order, object_col_order, executed>>
    ELSE /\ connected' = TRUE
         /\ dialog' = IF tables_exist /\ answer = "ok" THEN "ok" ELSE "none"
         /\ create_database_tables(column_defs, ~in_batch_mode)
         /\ res' = Raised("prepare_run", "none")
         /\ phase' = "prepared"

\* prepare_run(pipeline, image_set_list, frame); answer: "ok" or "cancel" as the
\* user answers the dialog, "unavailable" when import wx or the dialog raises.
\* A SELECT of a missing table raises, and the bare except goes on to
\* create_database_tables.  The SELECTs read the database only and are not
\* recorded in `executed`.
prepare_run(answer) ==
    IF db_type = DB_ORACLE
    THEN /\ res' = Raised("prepare_run", "NotImplementedError")
         /\ phase' = "failed"
         /\ UNCHANGED <<schemaVars, executed, dialog>>
    ELSE IF store_csvs
    THEN /\ res' = Raised("prepare_run", "none")
         /\ phase' = "prepared"
         /\ UNCHANGED <<schemaVars, executed, dialog>>
    ELSE IF tables_exist /\ answer = "cancel"
    THEN /\ connected' = TRUE
         /\ dialog' = "cancel"
         /\ res' = Raised("prepare_run", "none")
         /\ phase' = "refused"
         /\ UNCHANGED <<schema_set, col_dict, image_col_order, object_col_order, executed>>
    ELSE /\ connected' = TRUE
         /\ dialog' = IF tables_exist /\ answer = "ok" THEN "ok" ELSE "none"
         /\ create_database_tables(column_defs, ~in_batch_mode)
         /\ res' = Raised("prepare_run", "none")
         /\ phase' = "prepared"

PrepareRun ==
    /\ phase = "configured"
    /\ \E answer \in {"ok", "cancel", "unavailable"} : prepare_run(answer)
    /\ UNCHANGED <<mapperVars, cfgVars, meas, image_set_start_number, warnings,
                   csv_image, csv_object, script, existing>>

\* the modules before this one measure the next image set
Measure ==
    /\ phase = "prepared"
    /\ Len(meas) < MaxImageSets
    /\ \E m \in StoresOf(column_defs, 0..2, {<<>>, <<Num(1)>>, <<NaN>>}) :
          meas' = Append(meas, m)
    /\ phase' = "measured"
    /\ UNCHANGED <<mapperVars, cfgVars, schemaVars, executed, image_set_start_number,
                   res, warnings, csv_image, csv_object, envVars>>

\* run(workspace); the ColumnNameMapping it builds is local and
\* write_data_to_db does not read it
run ==
    IF (db_type = DB_MYSQL /\ ~store_csvs) \/ db_type = DB_SQLITE
    THEN /\ write_data_to_db
         /\ phase' = IF res'.raised = "none" THEN "prepared" ELSE "failed"
    ELSE /\ res' = Raised("run", "none")
         /\ phase' = "prepared"
         /\ UNCHANGED <<meas, warnings, executed>>

Run ==
    /\ phase = "measured"
    /\ run
    /\ UNCHANGED <<mapperVars, cfgVars, schemaVars, image_set_start_number,
                   csv_image, csv_object, envVars>>

\* post_run(workspace); the properties file of write_properties is not part
\* of the state
post_run ==
    IF ~store_csvs
    THEN /\ executed' = Append(executed, Stmt("COMMIT", "", <<>>, <<>>))
         /\ res' = Raised("post_run", "none")
         /\ phase' = "finished"
         /\ UNCHANGED <<meas, warnings, csv_image, csv_object, script>>
    ELSE IF db_type = DB_MYSQL
    THEN /\ write_mysql_table_defs(column_defs)
         /\ write_data
         /\ phase' = "finished"
         /\ UNCHANGED executed
    ELSE \* write_oracle_table_defs
         /\ res' = Raised("post_run", "NotImplementedError")
         /\ phase' = "failed"
         /\ UNCHANGED <<meas, warnings, csv_image, csv_object, executed, script>>

PostRun ==
    /\ phase = "prepared"
    /\ meas # <<>>
    /\ post_run
    /\ UNCHANGED <<mapperVars, cfgVars, schemaVars, image_set_start_number,
                   existing, dialog>>

RunNext == PrepareRun \/ Measure \/ Run \/ PostRun

SpecRun == RunInit /\ [][RunNext]_vars

Init == MapperInit /\ ExporterIdle /\ RowsIdle /\ EnvIdle

Next == MapperNext

Spec == Init /\ [][Next]_vars

-----------------------------------------------------------------------------
(* Claims about ColumnNameMapping *)

\* C1: after a resolution, no two distinct registered feature names have the
\* same column identifier, whatever the interleaving of add and __getitem__.
C1_DistinctIdentifiers ==
    (pc = "idle" /\ ret # <<>>) => Injective(dictionary)

\* C2: every identifier returned by a resolution is at most max_len long.
C2_WithinMaxLen ==
    ret # <<>> => Len(ret[2]) <= max_len

\* C3: a resolution of a name returns the identifier that the first resolution
\* of that name returned, also after registrations of other names.
C3_SameAsFirstResolution ==
    ret # <<>> => ret[2] = first_id[ret[1]]

\* C5: the layouts built by create_database_tables have 2 + R object columns
\* and 1 + I + A*R image columns (R retained object features, I retained image
\* features, A active aggregate kinds of the catalog).
RetainedObjectDefs ==
    {d \in Range(column_defs) : d[1] \notin {IMAGE, EXPERIMENT} /\ ~ignore_feature(d[1], d[2])}

RetainedImageDefs ==
    {d \in Range(column_defs) : d[1] = IMAGE /\ ~ignore_feature(d[1], d[2])}

C5_ColumnCounts ==
    schema_set =>
        /\ 2 + Cardinality(DOMAIN object_col_order) = 2 + Cardinality(RetainedObjectDefs)
        /\ 1 + Cardinality(DOMAIN image_col_order) =
               1 + Cardinality(RetainedImageDefs)
                 + Len(agg_names) * Cardinality(RetainedObjectDefs)

\* C4: the random fallback can always end: while it runs, some name that the
\* random deletions can produce is free (the code has no retry bound and no
\* fatal exit, so a free name is its only way out of the loop).
C4_FallbackCanEnd ==
    pc = "retry" =>
        \E name \in RandomShorten(cur.orig_name, max_len) :
            name \notin DOMAIN reverse_dictionary

\* the aggregate columns of the image table: requested kind and retained object
\* feature
AggregateColumns == {<<a, d>> : a \in wants_agg, d \in RetainedObjectDefs}

AggColumnName(c) == Join(<<c[1]>>, Join(c[2][1], c[2][2]))

\* where the writer `op` puts the column `name` of the image row / object row
ImagePosition(op, name) ==
    IF op = "write_data_to_db" THEN image_col_order[name]
    ELSE per_image_of(column_defs)[name]

ObjectPosition(op, name) ==
    IF op = "write_data_to_db" THEN object_col_order[name]
    ELSE per_object_of(column_defs)[name]

\* C6: for an image set whose max_count is 0, either writer produces no object
\* row (and the relational writer issues no Per_Object insert), puts 0 in
\* every aggregate cell of the image row, and does not call the aggregator.
C6_ZeroCountZeroAggregates ==
    \A i \in DOMAIN res.sets :
        res.sets[i].max_count = 0 =>
            /\ res.sets[i].object_rows = <<>>
            /\ \A k \in DOMAIN res.stmts : res.stmts[k].table # "Per_Object"
            /\ \A c \in AggregateColumns :
                  LET cell == res.sets[i].image_row[ImagePosition(res.op, AggColumnName(c))]
                  IN  cell # None /\ cell[1] = Zero
            /\ res.sets[i].index \notin Range(res.agg_calls)

\* the file writer has handled an image set without objects whose catalog has
\* two aggregate columns and whose object feature has measured values
C6_Witness ==
    /\ res.op = "write_data"
    /\ \E i \in DOMAIN res.sets :
          /\ res.sets[i].max_count = 0
          /\ {AGG_MEAN, AGG_STD_DEV} \subseteq wants_agg
          /\ \E d \in RetainedObjectDefs : meas[i][<<d[1], d[2]>>] = <<Num(1), Num(2)>>

\* C7: the column of a retained object feature in the max_count object rows is
\* the first min(n, max_count) entries of its sanitized vector, in order, then
\* zeros, whether the vector is shorter than, as long as or longer than
\* max_count.
C7_ColumnPaddedOrTruncated ==
    \A i \in DOMAIN res.sets :
        /\ Len(res.sets[i].object_rows) = res.sets[i].max_count
        /\ \A d \in RetainedObjectDefs : \A r \in 1..res.sets[i].max_count :
              LET values == Sanitize(meas[res.sets[i].index + 1][<<d[1], d[2]>>])
                  cell == res.sets[i].object_rows[r][ObjectPosition(res.op, Join(d[1], d[2]))]
              IN  cell # None /\ cell[1] = IF r <= Len(values) THEN values[r] ELSE Zero

\* the relational writer has padded a vector of length max_count - 2 with
\* exactly two zeros and recorded the diagnostic
C7_Witness ==
    /\ res.op = "write_data_to_db"
    /\ \E i \in DOMAIN res.sets : \E d \in RetainedObjectDefs :
          /\ res.sets[i].max_count = 3
          /\ meas[i][<<d[1], d[2]>>] = <<Num(2)>>
          /\ [r \in 1..3 |-> res.sets[i].object_rows[r][ObjectPosition(res.op, Join(d[1], d[2]))][1]]
                = <<Num(2), Zero, Zero>>
          /\ \E w \in DOMAIN warnings :
                warnings[w].kind = "too few" /\ warnings[w].got = 1 /\ warnings[w].expected = 3

\* C8: in a step of either writer on an image set with objects, the aggregator
\* is called and the aggregate cells are the aggregation primitive's results
\* over the vectors as they were before the step, while the object rows hold
\* finite values only and the vectors are left with their non-finite entries
\* replaced by 0.
C8_AggregatesBeforeSanitization ==
    [][\A i \in DOMAIN res'.sets :
           res'.sets[i].max_count > 0 =>
               /\ res'.sets[i].index \in Range(res'.agg_calls)
               /\ \A c \in AggregateColumns :
                     LET cell == res'.sets[i].image_row[ImagePosition(res'.op, AggColumnName(c))]
                     IN  /\ cell # None
                         /\ cell[1] = AggValue(c[1], meas[res'.sets[i].index + 1][<<c[2][1], c[2][2]>>])
               /\ \A d \in RetainedObjectDefs :
                     /\ meas'[res'.sets[i].index + 1][<<d[1], d[2]>>]
                           = Sanitize(meas[res'.sets[i].index + 1][<<d[1], d[2]>>])
                     /\ \A r \in 1..res'.sets[i].max_count :
                           IsFinite(res'.sets[i].object_rows[r]
                                        [ObjectPosition(res'.op, Join(d[1], d[2]))][1])]_vars

\* the relational writer has stored areas 1, 2, 0 and the mean 1.5: the third
\* area was not finite
C8_Witness ==
    /\ res.op = "write_data_to_db"
    /\ AGG_MEAN \in wants_agg
    /\ \E i \in DOMAIN res.sets : \E d \in RetainedObjectDefs :
          /\ res.sets[i].max_count = 3
          /\ [r \in 1..3 |-> res.sets[i].object_rows[r][ObjectPosition(res.op, Join(d[1], d[2]))][1]]
                = <<Num(1), Num(2), Zero>>
          /\ res.sets[i].image_row[ImagePosition(res.op, AggColumnName(<<AGG_MEAN, d>>))][1]
                = [num |-> 3, den |-> 2, root |-> FALSE]

\* C9: the relational writer issues ceil(n/25) Per_Object inserts for the n
\* object rows of an image set, each of at most 25 rows and all but the last of
\* exactly 25, and the inserted rows in the order of issue are the object rows
\* in order.
C9_GroupsOf25 ==
    (res.op = "write_data_to_db" /\ res.raised = "none") =>
        LET IsGroup(st) == st.op = "INSERT" /\ st.table = "Per_Object"
            groups == SelectSeq(res.stmts, IsGroup)
            object_rows == res.sets[1].object_rows
            n == Len(object_rows)
        IN  /\ Len(groups) = (n + 24) \div 25
            /\ \A g \in DOMAIN groups :
                  /\ Len(groups[g].rows) <= 25
                  /\ g < Len(groups) => Len(groups[g].rows) = 25
            /\ Concat([g \in DOMAIN groups |-> groups[g].rows])
                  = [r \in 1..n |-> [k \in DOMAIN object_rows[r] |-> object_rows[r][k][1]]]

\* 53 object rows were inserted in groups of 25, 25 and 3
C9_Witness ==
    /\ res.op = "write_data_to_db"
    /\ res.raised = "none"
    /\ Len(res.sets[1].object_rows) = 53
    /\ LET IsGroup(st) == st.op = "INSERT" /\ st.table = "Per_Object"
           groups == SelectSeq(res.stmts, IsGroup)
       IN  [g \in DOMAIN groups |-> Len(groups[g].rows)] = <<25, 25, 3>>

\* C10: whenever run has gone into write_data_to_db, prepare_run has set up the
\* connection and the schema (column-order maps and col_dict).
C10_SchemaBeforeRows ==
    res.op = "write_data_to_db" => (connected /\ schema_set)

\* C11: with db_type Oracle, prepare_run raises at once, whatever store_csvs
\* and the batch mode are: no connection is opened, no statement is executed,
\* no schema is set up, no row is written, and the run does not go on.
C11_OracleFailsFirst ==
    (db_type = DB_ORACLE /\ phase # "configured") =>
        /\ res = Raised("prepare_run", "NotImplementedError")
        /\ phase = "failed"
        /\ ~connected
        /\ ~schema_set
        /\ executed = <<>>
        /\ meas = <<>>
        /\ csv_image = <<>>
        /\ csv_object = <<>>

\* prepare_run has failed for Oracle with the file output chosen
C11_Witness ==
    /\ db_type = DB_ORACLE
    /\ store_csvs
    /\ res = Raised("prepare_run", "NotImplementedError")
    /\ phase = "failed"

\* C12: write_data_to_db never fails on a catalog that holds a filtered-out
\* object feature: every object feature it scatters into the object rows has a
\* position in object_col_order.
C12_FilteredFeaturesSkipped ==
    res.op = "write_data_to_db" => res.raised = "none"

\* the definitions the feature filter lets through, as the claim words it
Exported(d) ==
    /\ d[1] \notin {<<"Experiment">>, <<"Neighbors">>}
    /\ ~(Len(d[2]) >= 2 /\
            d[2][1] \in {"Description", "ModuleError", "TimeElapsed", "ExecutionTime"})

\* the definition d has a column among the image columns or the object columns:
\* its own, or an aggregate column it is the base of
ReceivesColumn(d, image_cols, object_cols) ==
    IF d[1] = IMAGE
    THEN Join(IMAGE, d[2]) \in image_cols \/ d[2] \in image_cols
    ELSE \/ Join(d[1], d[2]) \in object_cols
         \/ \E a \in AggKinds : Join(<<a>>, Join(d[1], d[2])) \in image_cols

\* C13: in the layout of create_database_tables and in the setup script of
\* write_mysql_table_defs alike, a definition of the catalog has a column exactly
\* when its object is neither Experiment nor Neighbors and its feature begins
\* with none of Description_, ModuleError_, TimeElapsed_, ExecutionTime_.
C13_FilterDecidesColumns ==
    /\ schema_set =>
          \A d \in Range(column_defs) :
              ReceivesColumn(d, DOMAIN image_col_order, DOMAIN object_col_order)
                  <=> Exported(d)
    /\ script # <<>> =>
          \A d \in Range(column_defs) :
              ReceivesColumn(d, Range(script.per_image), Range(script.per_object))
                  <=> Exported(d)

C13_Witness ==
    /\ schema_set
    /\ wants_agg = {AGG_MEAN}
    /\ column_defs = <<Def(NEIGHBORS, <<"Count">>), Def(<<"Nuclei">>, <<"Description", "X">>),
                       Def(<<"Nuclei">>, <<"Area">>)>>
    /\ DOMAIN object_col_order = {<<"Nuclei", "Area">>}
    /\ DOMAIN image_col_order = {<<"Mean", "Nuclei", "Area">>}

\* C14: the object columns of the layout follow the catalog: of two retained
\* object features with different column names, the one that comes earlier in
\* the catalog has the smaller position in object_col_order.
C14_ObjectColumnsInCatalogOrder ==
    schema_set =>
        \A i, j \in DOMAIN column_defs :
            (/\ i < j
             /\ column_defs[i] \in RetainedObjectDefs
             /\ column_defs[j] \in RetainedObjectDefs
             /\ Join(column_defs[i][1], column_defs[i][2])
                    # Join(column_defs[j][1], column_defs[j][2]))
            => object_col_order[Join(column_defs[i][1], column_defs[i][2])]
                   < object_col_order[Join(column_defs[j][1], column_defs[j][2])]

\* C15: whichever writer assembled the image row, the cell of a retained Image
\* feature whose measured value is non-finite holds 0.
C15_NonFiniteImageCellIsZero ==
    \A i \in DOMAIN res.sets : \A d \in RetainedImageDefs :
        ~IsFinite(meas[res.sets[i].index + 1][<<IMAGE, d[2]>>]) =>
            LET cell == res.sets[i].image_row[ImagePosition(res.op, Join(IMAGE, d[2]))]
            IN  cell # None /\ cell[1] = Zero

\* len(name) of a column name: its segments and the "_" between them
RECURSIVE NameLength(_)
NameLength(name) ==
    IF name = <<>> THEN 0
    ELSE Len(Head(name)) + (IF Len(name) > 1 THEN 1 + NameLength(Tail(name)) ELSE 0)

\* C16: every column name in a CREATE TABLE or INSERT statement executed on
\* the cursor is a ColumnNameMapping identifier: at most max_len (64)
\* characters long.
C16_StatementNamesWithinMaxLen ==
    \A k \in DOMAIN executed :
        executed[k].op \in {"CREATE TABLE", "INSERT"} =>
            \A c \in Range(executed[k].cols) : NameLength(c) <= max_len

\* C17: a table that was in the database when prepare_run started is dropped
\* only after the overwrite dialog was shown and answered with OK, and after a
\* cancelled dialog no table is dropped or created.
C17_NoDropWithoutConfirmation ==
    /\ \A k \in DOMAIN executed :
          (executed[k].op = "DROP TABLE" /\ executed[k].table \in existing)
              => dialog = "ok"
    /\ dialog = "cancel" =>
          \A k \in DOMAIN executed : executed[k].op \notin {"DROP TABLE", "CREATE TABLE"}

\* C18: every field of a row of the image CSV file is written in quotes, the
\* numbers too, and a field of a row of the object CSV file is written in
\* quotes exactly when it is not a number.
C18_ImageFieldsAllQuoted ==
    /\ \A i \in DOMAIN csv_image : \A k \in DOMAIN csv_image[i] :
          csv_image[i][k].quoted
    /\ \A i \in DOMAIN csv_object : \A k \in DOMAIN csv_object[i] :
          csv_object[i][k].quoted <=> csv_object[i][k].field = None

\* C19: the statements write_data_to_db issues for an image set hold exactly
\* one INSERT into Per_Image, which comes before every INSERT into Per_Object,
\* and exactly one COMMIT, which comes last, after every INSERT into
\* Per_Object.
C19_ImageRowThenBatchesThenCommit ==
    (res.op = "write_data_to_db" /\ res.raised = "none") =>
        /\ Cardinality({k \in DOMAIN res.stmts :
                           res.stmts[k].op = "INSERT" /\ res.stmts[k].table = "Per_Image"}) = 1
        /\ Cardinality({k \in DOMAIN res.stmts : res.stmts[k].op = "COMMIT"}) = 1
        /\ res.stmts[1].op = "INSERT" /\ res.stmts[1].table = "Per_Image"
        /\ res.stmts[Len(res.stmts)].op = "COMMIT"
        /\ \A k \in 2..Len(res.stmts) - 1 :
              res.stmts[k].op = "INSERT" /\ res.stmts[k].table = "Per_Object"

\* an image set of 53 objects: the image row, three batches, the commit
C19_Witness ==
    /\ res.op = "write_data_to_db"
    /\ res.raised = "none"
    /\ Len(res.stmts) = 5
    /\ res.sets[1].max_count = 53
    /\ Len(res.stmts[4].rows) = 3

\* the image set as the relational writer assembled it (db) and as the file
\* writer assembled it (file) agree: max_count, the number of object rows and
\* the value of every named column
PathsAgree(db, file) ==
    /\ db.max_count = file.max_count
    /\ Len(db.object_rows) = Len(file.object_rows)
    /\ \A d \in RetainedImageDefs :
          db.image_row[ImagePosition("write_data_to_db", Join(IMAGE, d[2]))][1]
              = file.image_row[ImagePosition("write_data", Join(IMAGE, d[2]))][1]
    /\ \A c \in AggregateColumns :
          db.image_row[ImagePosition("write_data_to_db", AggColumnName(c))][1]
              = file.image_row[ImagePosition("write_data", AggColumnName(c))][1]
    /\ \A d \in RetainedObjectDefs : \A r \in DOMAIN db.object_rows :
          db.object_rows[r][ObjectPosition("write_data_to_db", Join(d[1], d[2]))][1]
              = file.object_rows[r][ObjectPosition("write_data", Join(d[1], d[2]))][1]

\* C20: when write_data assembles an image set, write_data_to_db on the same
\* catalog, aggregate set and measurements, if it assembles the image set at
\* all, derives the same max_count, the same number of object rows and the
\* same value for every named column of the image row and the object rows.
C20_PathsInterchangeable ==
    [][(res.op = "none" /\ res'.op = "write_data") =>
          \A ob_order \in Orders(DOMAIN col_dict \ {IMAGE, EXPERIMENT}) :
              \A db \in {WriteDataToDbResult(meas[1], 0, ob_order)} :
                  db.raised = "none" => PathsAgree(db.sets[1], res'.sets[1])]_vars

\* C21: after create_database_tables with create_database false (batch mode)
\* no DROP TABLE and no CREATE TABLE was executed, and col_dict,
\* object_col_order and image_col_order are those a call with create_database
\* true builds from the same catalog and aggregate set.
C21_BatchModeOnlyInitializes ==
    (schema_set /\ in_batch_mode) =>
        /\ \A k \in DOMAIN executed :
              executed[k].op \notin {"DROP TABLE", "CREATE TABLE", "CREATE DATABASE"}
        /\ col_dict = ColDictOf(column_defs)
        /\ \E ob_order \in Orders(ObTables(column_defs)) :
              /\ object_col_order = ObjectColOrderOf(column_defs, ob_order)
              /\ image_col_order = ImageColOrderOf(column_defs, ob_order)

\* a batch-mode call on a catalog with an image feature, two object classes
\* and an aggregate: only USE was executed, the maps are filled
C21_Witness ==
    /\ schema_set
    /\ in_batch_mode
    /\ wants_agg = {AGG_MEAN}
    /\ column_defs = <<Def(IMAGE, <<"Count", "Nuclei">>), Def(<<"Nuclei">>, <<"Area">>),
                       Def(<<"Cells">>, <<"Area">>)>>
    /\ executed = <<Stmt("USE", "", <<>>, <<>>)>>
    /\ DOMAIN col_dict = {IMAGE, <<"Nuclei">>, <<"Cells">>}
    /\ Cardinality(DOMAIN object_col_order) = 2
    /\ Cardinality(DOMAIN image_col_order) = 3

\* the positions of the k rightmost characters of name that belong to class
Rightmost(name, class, k) ==
    {i \in DOMAIN name :
        /\ name[i] \in class
        /\ Cardinality({j \in DOMAIN name : j > i /\ name[j] \in class}) < k}

\* name without the characters at the positions `removed`, order kept
Without(name, removed) ==
    LET kept == DOMAIN name \ removed
    IN  [n \in 1..Cardinality(kept) |->
            name[CHOOSE i \in kept : Cardinality({j \in kept : j < i}) = n - 1]]

\* the three passes as the claim words them: the rightmost vowels, then the
\* rightmost consonants, then the rightmost uppercase letters, `excess` in all
ThreePasses(name, excess) ==
    LET vowels == Rightmost(name, Vowels, excess)
        consonants == Rightmost(name, Consonants, excess - Cardinality(vowels))
        uppercase == Rightmost(name, Uppercase,
                               excess - Cardinality(vowels) - Cardinality(consonants))
    IN  Without(name, vowels \cup consonants \cup uppercase)

\* C22: when do_mapping shortens a registered name for the first time and the
\* shortened form is not taken, the stored identifier is the name after the
\* three right-to-left passes and is exactly max_len characters long; a name
\* within the bound is never a problem name.
C22_ShortenedToMaxLen ==
    [][(pc = "do_mapping" /\ problem_names # <<>> /\ pc' = "do_mapping") =>
          LET orig_name == Head(problem_names)
              key == reverse_dictionary[orig_name]
          IN  /\ Len(orig_name) > max_len
              /\ orig_name = key =>
                    /\ dictionary'[key] = ThreePasses(orig_name, Len(orig_name) - max_len)
                    /\ Len(dictionary'[key]) = max_len]_vars

\* the integer values of the retained Image features of image set i whose
\* name contains Count
CountValues(i) ==
    {IntOf(meas[i][<<IMAGE, d[2]>>]) :
        d \in {e \in RetainedImageDefs :
                  \E k \in DOMAIN e[2] : e[2][k] = "Count"}}

\* C23: the max_count either writer derives for an image set is the largest
\* of 0 and the integer values of the retained Image features whose name
\* contains Count; it is not negative and it is the number of object rows.
C23_MaxCountIsLargestCount ==
    \A i \in DOMAIN res.sets :
        LET max_count == res.sets[i].max_count
            values == CountValues(res.sets[i].index + 1) \cup {0}
        IN  /\ max_count \in values
            /\ \A v \in values : v <= max_count
            /\ max_count >= 0
            /\ Len(res.sets[i].object_rows) = max_count

\* two count features, the first one the larger: three object rows
C23_Witness ==
    /\ res.op = "write_data_to_db"
    /\ \E i \in DOMAIN res.sets :
          /\ meas[i][<<IMAGE, <<"Count", "Nuclei">>>>] = Num(3)
          /\ <<IMAGE, <<"Count", "Cells">>>> \in DOMAIN meas[i]
          /\ meas[i][<<IMAGE, <<"Count", "Cells">>>>] = Num(1)
          /\ res.sets[i].max_count = 3
          /\ Len(res.sets[i].object_rows) = 3

\* a warning names the object feature d of the assembled image set `set` with
\* the length of its vector and the max_count of the image set
Warned(set, d) ==
    \E w \in DOMAIN warnings :
        /\ warnings[w].feature_name = Join(d[1], d[2])
        /\ warnings[w].image_number = set.image_number
        /\ warnings[w].got = Len(meas[set.index + 1][<<d[1], d[2]>>])
        /\ warnings[w].expected = set.max_count

\* on a catalog whose object features are all retained, a writer that has run
\* has assembled every image set
AssemblyCompletes ==
    (res.op # "none" /\ \A d \in Range(column_defs) :
                           d[1] \in {IMAGE, EXPERIMENT} \/ d \in RetainedObjectDefs)
        => (res.raised = "none" /\ Len(res.sets) = Len(meas))

InsertedObjectRows ==
    Concat([k \in DOMAIN executed |->
               IF executed[k].op = "INSERT" /\ executed[k].table = "Per_Object"
               THEN executed[k].rows ELSE <<>>])

\* C25: an assembled image set has exactly max_count object rows, each with
\* the ImageNumber of its image row (index plus image_set_start_number) and
\* the ObjectNumbers 1..max_count in order; the (ImageNumber, ObjectNumber)
\* pairs of all the rows inserted into Per_Object, and of all the rows written
\* to the object CSV file, are pairwise distinct.
C25_ObjectRowsNumbered ==
    /\ \A i \in DOMAIN res.sets :
          /\ Len(res.sets[i].object_rows) = res.sets[i].max_count
          /\ res.sets[i].image_row[0][1]
                 = Num(res.sets[i].index + image_set_start_number)
          /\ \A r \in DOMAIN res.sets[i].object_rows :
                /\ res.sets[i].object_rows[r][0][1] = res.sets[i].image_row[0][1]
                /\ res.sets[i].object_rows[r][1][1] = Num(r)
    /\ \A a, b \in DOMAIN InsertedObjectRows :
          a # b => <<InsertedObjectRows[a][0], InsertedObjectRows[a][1]>>
                      # <<InsertedObjectRows[b][0], InsertedObjectRows[b][1]>>
    /\ \A a, b \in DOMAIN csv_object :
          a # b => <<csv_object[a][0].field, csv_object[a][1].field>>
                      # <<csv_object[b][0].field, csv_object[b][1].field>>

\* two image sets of two objects and one object went through run: three rows
\* inserted, numbered (1, 1), (1, 2), (2, 1)
C25_Witness ==
    /\ res.op = "write_data_to_db"
    /\ res.raised = "none"
    /\ Len(meas) = 2
    /\ Len(InsertedObjectRows) = 3
    /\ [a \in 1..3 |-> <<InsertedObjectRows[a][0], InsertedObjectRows[a][1]>>]
          = << <<Num(1), Num(1)>>, <<Num(1), Num(2)>>, <<Num(2), Num(1)>> >>

\* C26: write_data_to_db hands an image row to the sink (no cell is unset and
\* no position is beyond the row), the row has 1 + |retained image features|
\* + |aggregate columns| cells, and each cell after the first holds a column
\* at the position image_col_order gives it, every position 1..n once.
C26_ImageRowComplete ==
    (res.op = "write_data_to_db" /\ res.raised \notin {"KeyError", "AttributeError"}) =>
        /\ res.raised = "none"
        /\ \A i \in DOMAIN res.sets :
              LET image_row == res.sets[i].image_row
                  n == Cardinality(RetainedImageDefs) + Cardinality(AggregateColumns)
              IN  /\ DOMAIN image_row = 0..n
                  /\ \A k \in 0..n : image_row[k] # None
                  /\ image_row[0][3] = <<"ImageNumber">>
                  /\ \A k \in 1..n :
                        /\ image_row[k][3] \in DOMAIN image_col_order
                        /\ image_col_order[image_row[k][3]] = k
                  /\ \A k \in 1..n :
                        Cardinality({name \in DOMAIN image_col_order :
                                        image_col_order[name] = k}) = 1

\* an image set with two objects and two aggregate kinds went to the sink: the
\* image number, the count and the two aggregates
C26_Witness ==
    /\ res.op = "write_data_to_db"
    /\ res.raised = "none"
    /\ wants_agg = {AGG_MEAN, AGG_STD_DEV}
    /\ res.sets[1].max_count = 2
    /\ DOMAIN res.sets[1].image_row = 0..3
    /\ \A k \in 0..3 : res.sets[1].image_row[k] # None
    /\ res.stmts[1].table = "Per_Image"

====
